---------------------------- MODULE Spec2Model ----------------------------
(***************************************************************************)
(* Verification model of the synchronization demos of the repository:      *)
(*                                                                         *)
(*   synchronization/producer_consumer_advanced.cpp                        *)
(*       NUM_PRODUCERS producer threads and NUM_CONSUMERS consumer threads *)
(*       sharing data_queue, mtx, cv and finished_producing.               *)
(*   synchronization/semaphore_cpp20.cpp                                   *)
(*       class CountingSemaphore (count, mtx, cv) and the worker harness.  *)
(*                                                                         *)
(* Every thread is a small program counter machine.  A step is one of:     *)
(* taking a mutex, the code executed while the mutex is held up to the     *)
(* next point where the thread blocks or unlocks, or a wake-up.            *)
(***************************************************************************)
EXTENDS Integers, Sequences, FiniteSets, TLC

\* ------------------------------------------------------------------------
\* Program constants (producer_consumer_advanced.cpp:18-20)
\* ------------------------------------------------------------------------
NUM_PRODUCERS == 2
NUM_CONSUMERS == 3
ITEMS_PER_PRODUCER == 5

\* Largest per-producer item count drawn by the generalised harness SpecPCAny
\* (the program itself always uses ITEMS_PER_PRODUCER).
MaxItems == 2

\* main() starts producer(i + 1) and consumer(i + 1): thread ids start at 1.
Producers == 1..NUM_PRODUCERS
Consumers == 1..NUM_CONSUMERS

\* Owner tags of a std::mutex.
Free == <<"free", 0>>
P(p) == <<"producer", p>>
C(c) == <<"consumer", c>>

VARIABLES
    \* ---- producer_consumer_advanced.cpp ----
    mtx,                \* owner of the global mutex, or Free
    cvWaiters,          \* consumers suspended inside cv.wait
    data_queue,         \* queue<int> data_queue
    finished_producing, \* bool finished_producing
    producers_done,     \* static int producers_done
    quota,              \* quota[p]: bound of producer p's for loop
    ppc,                \* ppc[p]: position of producer p
    pi,                 \* pi[p]: loop variable i of producer p
    cpc,                \* cpc[c]: position of consumer c
    \* history (not program state): what was pushed, popped, who closed
    pushed,
    popped,
    closeLog,
    \* ---- semaphore_cpp20.cpp ----
    count,              \* int count
    smtx,               \* owner of the semaphore's mutex, or Free
    semWaiters,         \* threads suspended inside the semaphore's cv.wait
    prog,               \* prog[w]: the calls thread w makes on sem, in order
    sip,                \* sip[w]: index in prog[w] of w's current call
    spc,                \* spc[w]: position of thread w inside that call
    \* history (not program state): most workers inside the section so far
    peak,
    \* ---- semaphore_native.cpp ----
    counter,            \* int counter
    pmtx,               \* owner of the global mutex, or Free
    poolWaiters,        \* threads suspended inside cv.wait
    wpc,                \* wpc[t]: position of thread t in pooled_worker
    \* ---- producer_consumer.cpp (one producer, one consumer) ----
    mtx1,               \* owner of the global mutex, or Free
    cvWaiting1,         \* TRUE while the consumer is suspended in cv.wait
    data_queue1,        \* queue<int> data_queue
    finished1,          \* bool finished_producing
    ppc1,               \* position of the producer thread
    i1,                 \* the producer's loop variable i
    cpc1,               \* position of the consumer thread
    \* history (not program state): the values the consumer processed
    processed,
    \* ---- sync_basics.cpp ----
    so,                 \* int so, shared by reference
    mtx2,               \* owner of the global mutex, or Free
    worker,             \* the function both threads run
    tpc,                \* tpc[t]: position of thread t
    ti,                 \* ti[t]: loop variable i of thread t
    treg,               \* treg[t]: the value thread t loaded for so += 2
    \* ---- 02_ipc_pipe_bidirectional.cpp ----
    p2c,                \* messages written to pipe_p2c and not yet read
    c2p,                \* messages written to pipe_c2p and not yet read
    parentP2cW,         \* the parent's descriptor pipe_p2c[1] is open
    childC2pW,          \* the child's descriptor pipe_c2p[1] is open
    ppos,               \* position of the parent process
    chpos,              \* position of the child process
    pInput,             \* string pInput
    cbuff,              \* char cbuff[1000], as a C string
    typed,              \* lines the user has typed so far
    \* history (not program state): per read of the parent, what it had
    \* sent, whether the read returned data, and pbuff as printed
    replyLog

pcVars == <<mtx, cvWaiters, data_queue, finished_producing, producers_done,
            quota, ppc, pi, cpc, pushed, popped, closeLog>>

semVars == <<count, smtx, semWaiters, prog, sip, spc, peak>>

poolVars == <<counter, pmtx, poolWaiters, wpc>>

\* The programs modelled after the first two.
simpleVars == <<mtx1, cvWaiting1, data_queue1, finished1, ppc1, i1, cpc1,
                processed>>

syncVars == <<so, mtx2, worker, tpc, ti, treg>>

chatVars == <<p2c, c2p, parentP2cW, childC2pW, ppos, chpos, pInput, cbuff,
              typed, replyLog>>

moreVars == <<poolVars, simpleVars, syncVars, chatVars>>

vars == <<pcVars, semVars, moreVars>>

\* What the threads of one program leave alone: the other programs' state.
otherThanPC == <<semVars, moreVars>>
otherThanSem == <<pcVars, moreVars>>
otherThanPool == <<pcVars, semVars, simpleVars, syncVars, chatVars>>
otherThanSimple == <<pcVars, semVars, poolVars, syncVars, chatVars>>
otherThanSync == <<pcVars, semVars, poolVars, simpleVars, chatVars>>
otherThanChat == <<pcVars, semVars, poolVars, simpleVars, syncVars>>

\* ------------------------------------------------------------------------
\* std::condition_variable
\* ------------------------------------------------------------------------
\* notify_one(): unblocks one of the threads waiting on the condition
\* variable, if any.  The result is the set of threads that are unblocked.
\* Variant: notify_one() unblocks every waiting thread.
NotifyOne_WakesAll(waiting) == {waiting}

NotifyOne(waiting) ==
    IF waiting = {} THEN {{}} ELSE {{t} : t \in waiting}

\* Variant: the close step's notification unblocks one waiting thread only.
NotifyAll_WakesOne(waiting) == NotifyOne(waiting)

\* notify_all(): unblocks every thread waiting on the condition variable.
NotifyAll(waiting) == {waiting}

\* ------------------------------------------------------------------------
\* producer(int id)
\* ------------------------------------------------------------------------
\* Variant: producer ids counted from 0.
Value_ZeroBasedId(id, i) == (id - 1) * 100 + i

\* int value = id * 100 + i;
Value(id, i) == id * 100 + i

\* Position of a producer that has completed i iterations of its for loop.
LoopOrFinish(p, i) == IF i < quota[p] THEN "lock" ELSE "fin_lock"

\* Variant: a bounded queue; the producer goes on only below 3 items.
ProducerLock_Bounded(p) ==
    /\ ppc[p] = "lock"
    /\ mtx = Free
    /\ Len(data_queue) < 3
    /\ mtx' = P(p)
    /\ ppc' = [ppc EXCEPT ![p] = "push"]
    /\ UNCHANGED <<cvWaiters, data_queue, finished_producing, producers_done,
                   quota, pi, cpc, pushed, popped, closeLog>>
    /\ UNCHANGED otherThanPC

\* Variant: the producer's loop body without the lock_guard.
ProducerLock_NoLock(p) ==
    /\ ppc[p] = "lock"
    /\ ppc' = [ppc EXCEPT ![p] = "push"]
    /\ UNCHANGED <<mtx, cvWaiters, data_queue, finished_producing,
                   producers_done, quota, pi, cpc, pushed, popped, closeLog>>
    /\ UNCHANGED otherThanPC

\* sleep_for(...); lock_guard<mutex> lock(mtx);
ProducerLock(p) ==
    /\ ppc[p] = "lock"
    /\ mtx = Free
    /\ mtx' = P(p)
    /\ ppc' = [ppc EXCEPT ![p] = "push"]
    /\ UNCHANGED <<cvWaiters, data_queue, finished_producing, producers_done,
                   quota, pi, cpc, pushed, popped, closeLog>>
    /\ UNCHANGED otherThanPC

\* Variant: the push without cv.notify_one().
ProducerPush_NoNotify(p) ==
    /\ ppc[p] = "push"
    /\ data_queue' = Append(data_queue, Value(p, pi[p]))
    /\ pushed' = Append(pushed, Value(p, pi[p]))
    /\ mtx' = Free
    /\ pi' = [pi EXCEPT ![p] = pi[p] + 1]
    /\ ppc' = [ppc EXCEPT ![p] = LoopOrFinish(p, pi[p] + 1)]
    /\ UNCHANGED <<cvWaiters, cpc, finished_producing, producers_done, quota,
                   popped, closeLog>>
    /\ UNCHANGED otherThanPC

\* Variant: cv.notify_all() after the push.
ProducerPush_NotifyAll(p) ==
    /\ ppc[p] = "push"
    /\ data_queue' = Append(data_queue, Value(p, pi[p]))
    /\ pushed' = Append(pushed, Value(p, pi[p]))
    /\ \E woken \in NotifyAll(cvWaiters) :
          /\ cvWaiters' = cvWaiters \ woken
          /\ cpc' = [c \in Consumers |->
                        IF c \in woken THEN "woken" ELSE cpc[c]]
    /\ mtx' = Free
    /\ pi' = [pi EXCEPT ![p] = pi[p] + 1]
    /\ ppc' = [ppc EXCEPT ![p] = LoopOrFinish(p, pi[p] + 1)]
    /\ UNCHANGED <<finished_producing, producers_done, quota, popped,
                   closeLog>>
    /\ UNCHANGED otherThanPC

\* value = id*100+i; data_queue.push(value); cv.notify_one(); } (unlock), ++i
ProducerPush(p) ==
    /\ ppc[p] = "push"
    /\ data_queue' = Append(data_queue, Value(p, pi[p]))
    /\ pushed' = Append(pushed, Value(p, pi[p]))
    /\ \E woken \in NotifyOne(cvWaiters) :
          /\ cvWaiters' = cvWaiters \ woken
          /\ cpc' = [c \in Consumers |->
                        IF c \in woken THEN "woken" ELSE cpc[c]]
    /\ mtx' = Free
    /\ pi' = [pi EXCEPT ![p] = pi[p] + 1]
    /\ ppc' = [ppc EXCEPT ![p] = LoopOrFinish(p, pi[p] + 1)]
    /\ UNCHANGED <<finished_producing, producers_done, quota, popped,
                   closeLog>>
    /\ UNCHANGED otherThanPC

\* { lock_guard<mutex> lock(mtx);   (the block after the loop)
ProducerFinLock(p) ==
    /\ ppc[p] = "fin_lock"
    /\ mtx = Free
    /\ mtx' = P(p)
    /\ ppc' = [ppc EXCEPT ![p] = "fin"]
    /\ UNCHANGED <<cvWaiters, data_queue, finished_producing, producers_done,
                   quota, pi, cpc, pushed, popped, closeLog>>
    /\ UNCHANGED otherThanPC

\* Variant: the first producer to finish closes (== 1 for == NUM_PRODUCERS).
ProducerFinish_FirstCloses(p) ==
    /\ ppc[p] = "fin"
    /\ producers_done' = producers_done + 1
    /\ IF producers_done + 1 = 1
          THEN /\ finished_producing' = TRUE
               /\ closeLog' = Append(closeLog, p)
               /\ \E woken \in NotifyAll(cvWaiters) :
                     /\ cvWaiters' = cvWaiters \ woken
                     /\ cpc' = [c \in Consumers |->
                                   IF c \in woken THEN "woken" ELSE cpc[c]]
          ELSE UNCHANGED <<finished_producing, closeLog, cvWaiters, cpc>>
    /\ mtx' = Free
    /\ ppc' = [ppc EXCEPT ![p] = "done"]
    /\ UNCHANGED <<data_queue, quota, pi, pushed, popped>>
    /\ UNCHANGED otherThanPC

\* Variant: every producer closes when it finishes (no counter test).
ProducerFinish_EveryCloses(p) ==
    /\ ppc[p] = "fin"
    /\ producers_done' = producers_done + 1
    /\ finished_producing' = TRUE
    /\ closeLog' = Append(closeLog, p)
    /\ \E woken \in NotifyAll(cvWaiters) :
          /\ cvWaiters' = cvWaiters \ woken
          /\ cpc' = [c \in Consumers |->
                        IF c \in woken THEN "woken" ELSE cpc[c]]
    /\ mtx' = Free
    /\ ppc' = [ppc EXCEPT ![p] = "done"]
    /\ UNCHANGED <<data_queue, quota, pi, pushed, popped>>
    /\ UNCHANGED otherThanPC

\* if (++producers_done == NUM_PRODUCERS)
\*     { finished_producing = true; cv.notify_all(); }  } (unlock)
ProducerFinish(p) ==
    /\ ppc[p] = "fin"
    /\ producers_done' = producers_done + 1
    /\ IF producers_done + 1 = NUM_PRODUCERS
          THEN /\ finished_producing' = TRUE
               /\ closeLog' = Append(closeLog, p)
               /\ \E woken \in NotifyAll(cvWaiters) :
                     /\ cvWaiters' = cvWaiters \ woken
                     /\ cpc' = [c \in Consumers |->
                                   IF c \in woken THEN "woken" ELSE cpc[c]]
          ELSE UNCHANGED <<finished_producing, closeLog, cvWaiters, cpc>>
    /\ mtx' = Free
    /\ ppc' = [ppc EXCEPT ![p] = "done"]
    /\ UNCHANGED <<data_queue, quota, pi, pushed, popped>>
    /\ UNCHANGED otherThanPC

\* ------------------------------------------------------------------------
\* consumer(int id)
\* ------------------------------------------------------------------------
\* Variant: the predicate without "|| finished_producing".
WaitPredicate_QueueOnly == data_queue # <<>>

\* The predicate of cv.wait: !data_queue.empty() || finished_producing
WaitPredicate == data_queue # <<>> \/ finished_producing

\* while (true) { unique_lock<mutex> lock(mtx);
ConsumerLock(c) ==
    /\ cpc[c] = "lock"
    /\ mtx = Free
    /\ mtx' = C(c)
    /\ cpc' = [cpc EXCEPT ![c] = "wait"]
    /\ UNCHANGED <<cvWaiters, data_queue, finished_producing, producers_done,
                   quota, ppc, pi, pushed, popped, closeLog>>
    /\ UNCHANGED otherThanPC

\* Variant: polling in place of the condition variable: a consumer that finds
\* the predicate false unlocks and goes round the loop to lock and look again.
ConsumerWait_Polling(c) ==
    /\ cpc[c] = "wait"
    /\ IF WaitPredicate
          THEN /\ cpc' = [cpc EXCEPT ![c] = "body"]
               /\ UNCHANGED <<mtx, cvWaiters>>
          ELSE /\ cpc' = [cpc EXCEPT ![c] = "lock"]
               /\ mtx' = Free
               /\ UNCHANGED cvWaiters
    /\ UNCHANGED <<data_queue, finished_producing, producers_done, quota,
                   ppc, pi, pushed, popped, closeLog>>
    /\ UNCHANGED otherThanPC

\* Variant: the consumer suspends without unlocking the mutex.
ConsumerWait_KeepsLock(c) ==
    /\ cpc[c] = "wait"
    /\ IF WaitPredicate
          THEN /\ cpc' = [cpc EXCEPT ![c] = "body"]
               /\ UNCHANGED <<mtx, cvWaiters>>
          ELSE /\ cpc' = [cpc EXCEPT ![c] = "blocked"]
               /\ cvWaiters' = cvWaiters \cup {c}
               /\ UNCHANGED mtx
    /\ UNCHANGED <<data_queue, finished_producing, producers_done, quota,
                   ppc, pi, pushed, popped, closeLog>>
    /\ UNCHANGED otherThanPC

\* cv.wait(lock, pred) is  while (!pred()) wait(lock);  evaluated with the
\* mutex held: return if the predicate holds, else unlock and suspend.
ConsumerWait(c) ==
    /\ cpc[c] = "wait"
    /\ IF WaitPredicate
          THEN /\ cpc' = [cpc EXCEPT ![c] = "body"]
               /\ UNCHANGED <<mtx, cvWaiters>>
          ELSE /\ cpc' = [cpc EXCEPT ![c] = "blocked"]
               /\ cvWaiters' = cvWaiters \cup {c}
               /\ mtx' = Free
    /\ UNCHANGED <<data_queue, finished_producing, producers_done, quota,
                   ppc, pi, pushed, popped, closeLog>>
    /\ UNCHANGED otherThanPC

\* Variant: if (!pred()) wait(lock); in place of the loop, so a consumer that
\* was unblocked goes on without evaluating the predicate again.
ConsumerRelock_NoRecheck(c) ==
    /\ cpc[c] = "woken"
    /\ mtx = Free
    /\ mtx' = C(c)
    /\ cpc' = [cpc EXCEPT ![c] = "body"]
    /\ UNCHANGED <<cvWaiters, data_queue, finished_producing, producers_done,
                   quota, ppc, pi, pushed, popped, closeLog>>
    /\ UNCHANGED otherThanPC

\* A thread unblocked from wait(lock) re-locks the mutex before wait(lock)
\* returns; the loop of cv.wait(lock, pred) then evaluates pred again.
ConsumerRelock(c) ==
    /\ cpc[c] = "woken"
    /\ mtx = Free
    /\ mtx' = C(c)
    /\ cpc' = [cpc EXCEPT ![c] = "wait"]
    /\ UNCHANGED <<cvWaiters, data_queue, finished_producing, producers_done,
                   quota, ppc, pi, pushed, popped, closeLog>>
    /\ UNCHANGED otherThanPC

\* wait(lock) may also return without any notification (spurious wake-up).
ConsumerSpuriousWake(c) ==
    /\ cpc[c] = "blocked"
    /\ c \in cvWaiters
    /\ cvWaiters' = cvWaiters \ {c}
    /\ cpc' = [cpc EXCEPT ![c] = "woken"]
    /\ UNCHANGED <<mtx, data_queue, finished_producing, producers_done,
                   quota, ppc, pi, pushed, popped, closeLog>>
    /\ UNCHANGED otherThanPC

\* Variant: the consumer takes the newest element (back) instead of front().
ConsumerBody_PopBack(c) ==
    /\ cpc[c] = "body"
    /\ IF data_queue # <<>>
          THEN /\ popped' = Append(popped, data_queue[Len(data_queue)])
               /\ data_queue' = SubSeq(data_queue, 1, Len(data_queue) - 1)
               /\ cpc' = [cpc EXCEPT ![c] = "lock"]
          ELSE /\ cpc' = [cpc EXCEPT ![c] =
                              IF finished_producing THEN "done" ELSE "lock"]
               /\ UNCHANGED <<data_queue, popped>>
    /\ mtx' = Free
    /\ UNCHANGED <<cvWaiters, finished_producing, producers_done, quota,
                   ppc, pi, pushed, closeLog>>
    /\ UNCHANGED otherThanPC

\* Variant: the two branches in the other order, finished_producing first.
ConsumerBody_FinishedFirst(c) ==
    /\ cpc[c] = "body"
    /\ IF finished_producing
          THEN /\ cpc' = [cpc EXCEPT ![c] = "done"]
               /\ UNCHANGED <<data_queue, popped>>
          ELSE IF data_queue # <<>>
                  THEN /\ popped' = Append(popped, Head(data_queue))
                       /\ data_queue' = Tail(data_queue)
                       /\ cpc' = [cpc EXCEPT ![c] = "lock"]
                  ELSE /\ cpc' = [cpc EXCEPT ![c] = "lock"]
                       /\ UNCHANGED <<data_queue, popped>>
    /\ mtx' = Free
    /\ UNCHANGED <<cvWaiters, finished_producing, producers_done, quota,
                   ppc, pi, pushed, closeLog>>
    /\ UNCHANGED otherThanPC

\* Variant: a consumer that exits clears finished_producing.
ConsumerBody_ResetsFlag(c) ==
    /\ cpc[c] = "body"
    /\ IF data_queue # <<>>
          THEN /\ popped' = Append(popped, Head(data_queue))
               /\ data_queue' = Tail(data_queue)
               /\ cpc' = [cpc EXCEPT ![c] = "lock"]
               /\ UNCHANGED finished_producing
          ELSE /\ cpc' = [cpc EXCEPT ![c] =
                              IF finished_producing THEN "done" ELSE "lock"]
               /\ finished_producing' = FALSE
               /\ UNCHANGED <<data_queue, popped>>
    /\ mtx' = Free
    /\ UNCHANGED <<cvWaiters, producers_done, quota, ppc, pi, pushed,
                   closeLog>>
    /\ UNCHANGED otherThanPC

\* if (!data_queue.empty()) { data = front(); pop(); lock.unlock(); cout }
\* else if (finished_producing) { break; }
\* (otherwise the iteration ends and ~unique_lock unlocks)
ConsumerBody(c) ==
    /\ cpc[c] = "body"
    /\ IF data_queue # <<>>
          THEN /\ popped' = Append(popped, Head(data_queue))
               /\ data_queue' = Tail(data_queue)
               /\ cpc' = [cpc EXCEPT ![c] = "lock"]
          ELSE /\ cpc' = [cpc EXCEPT ![c] =
                              IF finished_producing THEN "done" ELSE "lock"]
               /\ UNCHANGED <<data_queue, popped>>
    /\ mtx' = Free
    /\ UNCHANGED <<cvWaiters, finished_producing, producers_done, quota,
                   ppc, pi, pushed, closeLog>>
    /\ UNCHANGED otherThanPC

\* ------------------------------------------------------------------------
\* main(): the threads are started; join() only waits.
\* ------------------------------------------------------------------------
InitPCWith(q) ==
    /\ mtx = Free
    /\ cvWaiters = {}
    /\ data_queue = <<>>
    /\ finished_producing = FALSE
    /\ producers_done = 0
    /\ quota = q
    /\ pi = [p \in Producers |-> 0]
    /\ ppc = [p \in Producers |-> IF 0 < q[p] THEN "lock" ELSE "fin_lock"]
    /\ cpc = [c \in Consumers |-> "lock"]
    /\ pushed = <<>>
    /\ popped = <<>>
    /\ closeLog = <<>>

\* The program: every producer pushes ITEMS_PER_PRODUCER items.
InitPC == InitPCWith([p \in Producers |-> ITEMS_PER_PRODUCER])

\* The harness for any item counts up to MaxItems, none included.
InitPCAny == \E q \in [Producers -> 0..MaxItems] : InitPCWith(q)

NextPC ==
    \/ \E p \in Producers : ProducerLock(p)
    \/ \E p \in Producers : ProducerPush(p)
    \/ \E p \in Producers : ProducerFinLock(p)
    \/ \E p \in Producers : ProducerFinish(p)
    \/ \E c \in Consumers : ConsumerLock(c)
    \/ \E c \in Consumers : ConsumerWait(c)
    \/ \E c \in Consumers : ConsumerRelock(c)
    \/ \E c \in Consumers : ConsumerSpuriousWake(c)
    \/ \E c \in Consumers : ConsumerBody(c)

\* ------------------------------------------------------------------------
\* class CountingSemaphore, CountingSemaphore sem(3)   (semaphore_cpp20.cpp)
\* ------------------------------------------------------------------------
\* CountingSemaphore sem(3): the constructor argument, count's first value.
SEM_INITIAL == 3

\* Threads of the worker harness modelled (main() starts 10 of them).
MaxWorkers == 5
\* Threads that call sem in an arbitrary order in SpecSemAny, and the
\* largest number of calls each of them makes.
MaxCallers == 2
MaxCalls == 2

Workers == 1..MaxWorkers
W(w) == <<"worker", w>>

\* worker(int id): sem.acquire(); ...work...; sem.release();
WorkerProg == <<"acquire", "release">>

\* Every sequence of at most MaxCalls calls of acquire() and release().
CallSeqs ==
    UNION {[1..n -> {"acquire", "release"}] : n \in 0..MaxCalls}

\* The call thread w is making or about to make; "return" once it made all.
CurrentCall(w) ==
    IF sip[w] <= Len(prog[w]) THEN prog[w][sip[w]] ELSE "return"

\* acquire() { std::unique_lock<std::mutex> lock(mtx);
AcquireLock(w) ==
    /\ spc[w] = "call"
    /\ CurrentCall(w) = "acquire"
    /\ smtx = Free
    /\ smtx' = W(w)
    /\ spc' = [spc EXCEPT ![w] = "acq_wait"]
    /\ UNCHANGED <<count, semWaiters, prog, sip, peak>>
    /\ UNCHANGED otherThanSem

\* Variant: the predicate is count >= 0.
AcquireWait_OffByOne(w) ==
    /\ spc[w] = "acq_wait"
    /\ IF count >= 0
          THEN /\ spc' = [spc EXCEPT ![w] = "acq_dec"]
               /\ UNCHANGED <<smtx, semWaiters>>
          ELSE /\ spc' = [spc EXCEPT ![w] = "blocked"]
               /\ semWaiters' = semWaiters \cup {w}
               /\ smtx' = Free
    /\ UNCHANGED <<count, prog, sip, peak>>
    /\ UNCHANGED otherThanSem

\* cv.wait(lock, [&]{ return count > 0; }) is  while (!(count > 0))
\* wait(lock);  with the mutex held: go on to --count if count > 0, else
\* unlock and suspend.
AcquireWait(w) ==
    /\ spc[w] = "acq_wait"
    /\ IF count > 0
          THEN /\ spc' = [spc EXCEPT ![w] = "acq_dec"]
               /\ UNCHANGED <<smtx, semWaiters>>
          ELSE /\ spc' = [spc EXCEPT ![w] = "blocked"]
               /\ semWaiters' = semWaiters \cup {w}
               /\ smtx' = Free
    /\ UNCHANGED <<count, prog, sip, peak>>
    /\ UNCHANGED otherThanSem

\* Variant: a single wait(lock) in place of the loop, so an unblocked thread
\* goes on to --count without evaluating the predicate again.
AcquireRelock_NoRecheck(w) ==
    /\ spc[w] = "woken"
    /\ smtx = Free
    /\ smtx' = W(w)
    /\ spc' = [spc EXCEPT ![w] = "acq_dec"]
    /\ UNCHANGED <<count, semWaiters, prog, sip, peak>>
    /\ UNCHANGED otherThanSem

\* An unblocked thread re-locks the mutex inside wait(lock); the loop of
\* cv.wait(lock, pred) then evaluates the predicate again.
AcquireRelock(w) ==
    /\ spc[w] = "woken"
    /\ smtx = Free
    /\ smtx' = W(w)
    /\ spc' = [spc EXCEPT ![w] = "acq_wait"]
    /\ UNCHANGED <<count, semWaiters, prog, sip, peak>>
    /\ UNCHANGED otherThanSem

\* wait(lock) may return without a notification (spurious wake-up).
AcquireSpuriousWake(w) ==
    /\ spc[w] = "blocked"
    /\ w \in semWaiters
    /\ semWaiters' = semWaiters \ {w}
    /\ spc' = [spc EXCEPT ![w] = "woken"]
    /\ UNCHANGED <<count, smtx, prog, sip, peak>>
    /\ UNCHANGED otherThanSem

\* Variant: acquire() returns without --count.
AcquireDecrement_NoDecrement(w) ==
    /\ spc[w] = "acq_dec"
    /\ smtx' = Free
    /\ sip' = [sip EXCEPT ![w] = sip[w] + 1]
    /\ spc' = [spc EXCEPT ![w] = "call"]
    /\ peak' = LET n == Cardinality({v \in Workers :
                                        /\ prog[v] = WorkerProg
                                        /\ sip'[v] = 2})
               IN  IF n > peak THEN n ELSE peak
    /\ UNCHANGED <<count, semWaiters, prog>>
    /\ UNCHANGED otherThanSem

\* --count; }  (~unique_lock unlocks, acquire() returns).  A worker is then
\* inside its guarded section; peak records the most that were at once.
AcquireDecrement(w) ==
    /\ spc[w] = "acq_dec"
    /\ count' = count - 1
    /\ smtx' = Free
    /\ sip' = [sip EXCEPT ![w] = sip[w] + 1]
    /\ spc' = [spc EXCEPT ![w] = "call"]
    /\ peak' = LET n == Cardinality({v \in Workers :
                                        /\ prog[v] = WorkerProg
                                        /\ sip'[v] = 2})
               IN  IF n > peak THEN n ELSE peak
    /\ UNCHANGED <<semWaiters, prog>>
    /\ UNCHANGED otherThanSem

\* release() { std::unique_lock<std::mutex> lock(mtx);
ReleaseLock(w) ==
    /\ spc[w] = "call"
    /\ CurrentCall(w) = "release"
    /\ smtx = Free
    /\ smtx' = W(w)
    /\ spc' = [spc EXCEPT ![w] = "rel"]
    /\ UNCHANGED <<count, semWaiters, prog, sip, peak>>
    /\ UNCHANGED otherThanSem

\* Variant: cv.notify_all() in release().
ReleaseBody_NotifyAll(w) ==
    /\ spc[w] = "rel"
    /\ count' = count + 1
    /\ \E woken \in NotifyAll(semWaiters) :
          /\ semWaiters' = semWaiters \ woken
          /\ spc' = [v \in Workers |->
                        IF v \in woken THEN "woken"
                        ELSE IF v = w THEN "call" ELSE spc[v]]
    /\ smtx' = Free
    /\ sip' = [sip EXCEPT ![w] = sip[w] + 1]
    /\ UNCHANGED <<prog, peak>>
    /\ UNCHANGED otherThanSem

\* Variant: release() without cv.notify_one().
ReleaseBody_NoNotify(w) ==
    /\ spc[w] = "rel"
    /\ count' = count + 1
    /\ spc' = [spc EXCEPT ![w] = "call"]
    /\ smtx' = Free
    /\ sip' = [sip EXCEPT ![w] = sip[w] + 1]
    /\ UNCHANGED <<semWaiters, prog, peak>>
    /\ UNCHANGED otherThanSem

\* ++count; cv.notify_one(); }  (~unique_lock unlocks, release() returns)
ReleaseBody(w) ==
    /\ spc[w] = "rel"
    /\ count' = count + 1
    /\ \E woken \in NotifyOne(semWaiters) :
          /\ semWaiters' = semWaiters \ woken
          /\ spc' = [v \in Workers |->
                        IF v \in woken THEN "woken"
                        ELSE IF v = w THEN "call" ELSE spc[v]]
    /\ smtx' = Free
    /\ sip' = [sip EXCEPT ![w] = sip[w] + 1]
    /\ UNCHANGED <<prog, peak>>
    /\ UNCHANGED otherThanSem

InitSemWith(pr) ==
    /\ count = SEM_INITIAL
    /\ smtx = Free
    /\ semWaiters = {}
    /\ prog = pr
    /\ sip = [w \in Workers |-> 1]
    /\ spc = [w \in Workers |-> "call"]
    /\ peak = 0

\* main(): every thread runs worker().
InitSem == InitSemWith([w \in Workers |-> WorkerProg])

\* Threads 1..MaxCallers call acquire() and release() in any order.
InitSemAny ==
    \E pr \in [Workers -> CallSeqs] :
        /\ \A w \in Workers : w > MaxCallers => pr[w] = <<>>
        /\ InitSemWith(pr)

NextSem ==
    \/ \E w \in Workers : AcquireLock(w)
    \/ \E w \in Workers : AcquireWait(w)
    \/ \E w \in Workers : AcquireRelock(w)
    \/ \E w \in Workers : AcquireSpuriousWake(w)
    \/ \E w \in Workers : AcquireDecrement(w)
    \/ \E w \in Workers : ReleaseLock(w)
    \/ \E w \in Workers : ReleaseBody(w)

\* ------------------------------------------------------------------------
\* semaphore_native.cpp: pooled_worker(int tid)
\* ------------------------------------------------------------------------
\* if (counter < 3): the number of workers let in at once.
POOL_LIMIT == 3

\* Threads started by main (10 in the program).
MaxPoolWorkers == 4

\* main() starts pooled_worker(i) for i = 0, 1, ...
PoolWorkers == 0..(MaxPoolWorkers - 1)
PW(t) == <<"pooled_worker", t>>

\* Variant: the check lets a worker in at counter == 3 as well.
my_chcek_OffByOne == counter <= POOL_LIMIT

\* auto my_chcek() { if (counter < 3) return true; return false; }
my_chcek == counter < POOL_LIMIT

\* unique_lock<mutex> cs_lock(mtx);
PoolLock(t) ==
    /\ wpc[t] = "lock"
    /\ pmtx = Free
    /\ pmtx' = PW(t)
    /\ wpc' = [wpc EXCEPT ![t] = "wait"]
    /\ UNCHANGED <<counter, poolWaiters>>
    /\ UNCHANGED otherThanPool

\* cv.wait(cs_lock, my_chcek) is  while (!my_chcek()) wait(cs_lock);  with
\* the mutex held: go on if the check holds, else unlock and suspend.
PoolWait(t) ==
    /\ wpc[t] = "wait"
    /\ IF my_chcek
          THEN /\ wpc' = [wpc EXCEPT ![t] = "enter"]
               /\ UNCHANGED <<pmtx, poolWaiters>>
          ELSE /\ wpc' = [wpc EXCEPT ![t] = "blocked"]
               /\ poolWaiters' = poolWaiters \cup {t}
               /\ pmtx' = Free
    /\ UNCHANGED counter
    /\ UNCHANGED otherThanPool

\* An unblocked thread re-locks the mutex inside wait(cs_lock); the loop of
\* cv.wait then evaluates my_chcek again.
PoolRelock(t) ==
    /\ wpc[t] = "woken"
    /\ pmtx = Free
    /\ pmtx' = PW(t)
    /\ wpc' = [wpc EXCEPT ![t] = "wait"]
    /\ UNCHANGED <<counter, poolWaiters>>
    /\ UNCHANGED otherThanPool

\* wait(cs_lock) may also return without any notification.
PoolSpuriousWake(t) ==
    /\ wpc[t] = "blocked"
    /\ t \in poolWaiters
    /\ poolWaiters' = poolWaiters \ {t}
    /\ wpc' = [wpc EXCEPT ![t] = "woken"]
    /\ UNCHANGED <<counter, pmtx>>
    /\ UNCHANGED otherThanPool

\* counter++; cout << ...; cs_lock.unlock();
PoolEnter(t) ==
    /\ wpc[t] = "enter"
    /\ counter' = counter + 1
    /\ pmtx' = Free
    /\ wpc' = [wpc EXCEPT ![t] = "work"]
    /\ UNCHANGED poolWaiters
    /\ UNCHANGED otherThanPool

\* sleep_for(1000ms); for (...) cout << ...; unique_lock<mutex> cs_lock2(mtx);
PoolLeaveLock(t) ==
    /\ wpc[t] = "work"
    /\ pmtx = Free
    /\ pmtx' = PW(t)
    /\ wpc' = [wpc EXCEPT ![t] = "leave"]
    /\ UNCHANGED <<counter, poolWaiters>>
    /\ UNCHANGED otherThanPool

\* counter--; cout << ...; cv.notify_all(); cs_lock2.unlock(); }
PoolLeave(t) ==
    /\ wpc[t] = "leave"
    /\ counter' = counter - 1
    /\ \E woken \in NotifyAll(poolWaiters) :
          /\ poolWaiters' = poolWaiters \ woken
          /\ wpc' = [u \in PoolWorkers |->
                        IF u \in woken THEN "woken"
                        ELSE IF u = t THEN "done" ELSE wpc[u]]
    /\ pmtx' = Free
    /\ UNCHANGED otherThanPool

\* The globals as initialised, with the threads in `started` running.
InitPoolWith(started) ==
    /\ counter = 0
    /\ pmtx = Free
    /\ poolWaiters = {}
    /\ wpc = [t \in PoolWorkers |-> IF t \in started THEN "lock" ELSE "done"]

InitPool == InitPoolWith(PoolWorkers)

NextPool ==
    \/ \E t \in PoolWorkers : PoolLock(t)
    \/ \E t \in PoolWorkers : PoolWait(t)
    \/ \E t \in PoolWorkers : PoolRelock(t)
    \/ \E t \in PoolWorkers : PoolSpuriousWake(t)
    \/ \E t \in PoolWorkers : PoolEnter(t)
    \/ \E t \in PoolWorkers : PoolLeaveLock(t)
    \/ \E t \in PoolWorkers : PoolLeave(t)

\* ------------------------------------------------------------------------
\* producer_consumer.cpp: producer(), consumer()
\* ------------------------------------------------------------------------
\* for (int i = 0; i < 10; ++i)
SIMPLE_ITEMS == 10

Producer1 == <<"producer", 0>>
Consumer1 == <<"consumer", 0>>

\* Position of the producer after i iterations of its loop.
SimpleLoopOrFinish(i) == IF i < SIMPLE_ITEMS THEN "lock" ELSE "fin_lock"

\* sleep_for(200ms); lock_guard<mutex> lock(mtx);
SimpleProducerLock ==
    /\ ppc1 = "lock"
    /\ mtx1 = Free
    /\ mtx1' = Producer1
    /\ ppc1' = "push"
    /\ UNCHANGED <<cvWaiting1, data_queue1, finished1, i1, cpc1, processed>>
    /\ UNCHANGED otherThanSimple

\* data_queue.push(i); cv.notify_one(); } (unlock), ++i
SimpleProducerPush ==
    /\ ppc1 = "push"
    /\ data_queue1' = Append(data_queue1, i1)
    /\ IF cvWaiting1
          THEN cvWaiting1' = FALSE /\ cpc1' = "woken"
          ELSE UNCHANGED <<cvWaiting1, cpc1>>
    /\ mtx1' = Free
    /\ i1' = i1 + 1
    /\ ppc1' = SimpleLoopOrFinish(i1 + 1)
    /\ UNCHANGED <<finished1, processed>>
    /\ UNCHANGED otherThanSimple

\* lock_guard<mutex> lock(mtx);   (after the loop)
SimpleProducerFinLock ==
    /\ ppc1 = "fin_lock"
    /\ mtx1 = Free
    /\ mtx1' = Producer1
    /\ ppc1' = "fin"
    /\ UNCHANGED <<cvWaiting1, data_queue1, finished1, i1, cpc1, processed>>
    /\ UNCHANGED otherThanSimple

\* finished_producing = true; cv.notify_all(); } (unlock, return)
SimpleProducerFinish ==
    /\ ppc1 = "fin"
    /\ finished1' = TRUE
    /\ IF cvWaiting1
          THEN cvWaiting1' = FALSE /\ cpc1' = "woken"
          ELSE UNCHANGED <<cvWaiting1, cpc1>>
    /\ mtx1' = Free
    /\ ppc1' = "done"
    /\ UNCHANGED <<data_queue1, i1, processed>>
    /\ UNCHANGED otherThanSimple

\* auto predict() { return !data_queue.empty() || finished_producing; }
predict == data_queue1 # <<>> \/ finished1

\* while (true) { unique_lock<mutex> lock(mtx);
SimpleConsumerLock ==
    /\ cpc1 = "lock"
    /\ mtx1 = Free
    /\ mtx1' = Consumer1
    /\ cpc1' = "wait"
    /\ UNCHANGED <<cvWaiting1, data_queue1, finished1, ppc1, i1, processed>>
    /\ UNCHANGED otherThanSimple

\* cv.wait(lock, predict): return if predict() holds, else unlock and suspend.
SimpleConsumerWait ==
    /\ cpc1 = "wait"
    /\ IF predict
          THEN /\ cpc1' = "body"
               /\ UNCHANGED <<mtx1, cvWaiting1>>
          ELSE /\ cpc1' = "blocked"
               /\ cvWaiting1' = TRUE
               /\ mtx1' = Free
    /\ UNCHANGED <<data_queue1, finished1, ppc1, i1, processed>>
    /\ UNCHANGED otherThanSimple

\* The unblocked consumer re-locks inside wait(lock); predict() is then
\* evaluated again.
SimpleConsumerRelock ==
    /\ cpc1 = "woken"
    /\ mtx1 = Free
    /\ mtx1' = Consumer1
    /\ cpc1' = "wait"
    /\ UNCHANGED <<cvWaiting1, data_queue1, finished1, ppc1, i1, processed>>
    /\ UNCHANGED otherThanSimple

\* wait(lock) may also return without any notification.
SimpleConsumerSpuriousWake ==
    /\ cpc1 = "blocked"
    /\ cvWaiting1
    /\ cvWaiting1' = FALSE
    /\ cpc1' = "woken"
    /\ UNCHANGED <<mtx1, data_queue1, finished1, ppc1, i1, processed>>
    /\ UNCHANGED otherThanSimple

\* Variant: the consumer tests finished_producing before the queue.
SimpleConsumerBody_FinishedFirst ==
    /\ cpc1 = "body"
    /\ IF finished1
          THEN /\ cpc1' = "done"
               /\ UNCHANGED <<data_queue1, processed>>
          ELSE IF data_queue1 # <<>>
          THEN /\ processed' = Append(processed, Head(data_queue1))
               /\ data_queue1' = Tail(data_queue1)
               /\ cpc1' = "lock"
          ELSE /\ cpc1' = "lock"
               /\ UNCHANGED <<data_queue1, processed>>
    /\ mtx1' = Free
    /\ UNCHANGED <<cvWaiting1, finished1, ppc1, i1>>
    /\ UNCHANGED otherThanSimple

\* if (!data_queue.empty()) { data = front(); pop(); lock.unlock();
\*     cout << "Consumer processed: " << data; }
\* else if (finished_producing) { break; }        } (unlock)
SimpleConsumerBody ==
    /\ cpc1 = "body"
    /\ IF data_queue1 # <<>>
          THEN /\ processed' = Append(processed, Head(data_queue1))
               /\ data_queue1' = Tail(data_queue1)
               /\ cpc1' = "lock"
          ELSE IF finished1
          THEN /\ cpc1' = "done"
               /\ UNCHANGED <<data_queue1, processed>>
          ELSE /\ cpc1' = "lock"
               /\ UNCHANGED <<data_queue1, processed>>
    /\ mtx1' = Free
    /\ UNCHANGED <<cvWaiting1, finished1, ppc1, i1>>
    /\ UNCHANGED otherThanSimple

\* The globals as initialised; the two threads started by main, or not.
InitSimpleWith(running) ==
    /\ mtx1 = Free
    /\ cvWaiting1 = FALSE
    /\ data_queue1 = <<>>
    /\ finished1 = FALSE
    /\ i1 = 0
    /\ ppc1 = IF running THEN "lock" ELSE "done"
    /\ cpc1 = IF running THEN "lock" ELSE "done"
    /\ processed = <<>>

InitSimple == InitSimpleWith(TRUE)

NextSimple ==
    \/ SimpleProducerLock
    \/ SimpleProducerPush
    \/ SimpleProducerFinLock
    \/ SimpleProducerFinish
    \/ SimpleConsumerLock
    \/ SimpleConsumerWait
    \/ SimpleConsumerRelock
    \/ SimpleConsumerSpuriousWake
    \/ SimpleConsumerBody

\* ------------------------------------------------------------------------
\* sync_basics.cpp: workFun, safeWorker, safeWorkerRAII
\* ------------------------------------------------------------------------
\* int so = 23;
SO_INITIAL == 23

\* thread t1(...), t2(...)
NUM_SYNC_THREADS == 2

\* Iterations of each worker's loop (ITERATIONS is 100000 in the program).
MaxIterations == 3

SyncThreads == 1..NUM_SYNC_THREADS
T(t) == <<"thread", t>>

\* The three worker functions; the last two take the mutex around so += 2.
Workers3 == {"workFun", "safeWorker", "safeWorkerRAII"}
Locking(f) == f \in {"safeWorker", "safeWorkerRAII"}

\* Position of a thread that has completed i iterations.
SyncLoopOrDone(i) ==
    IF i < MaxIterations
       THEN (IF Locking(worker) THEN "lock" ELSE "load")
       ELSE "done"

\* Variant: the lock is taken whether or not another thread holds it.
SyncLock_NoExclusion(t) ==
    /\ tpc[t] = "lock"
    /\ mtx2' = T(t)
    /\ tpc' = [tpc EXCEPT ![t] = "load"]
    /\ UNCHANGED <<so, worker, ti, treg>>
    /\ UNCHANGED otherThanSync

\* mtx.lock();  or  lock_guard<mutex> protect(mtx);
SyncLock(t) ==
    /\ tpc[t] = "lock"
    /\ mtx2 = Free
    /\ mtx2' = T(t)
    /\ tpc' = [tpc EXCEPT ![t] = "load"]
    /\ UNCHANGED <<so, worker, ti, treg>>
    /\ UNCHANGED otherThanSync

\* so += 2 on a plain int is a load, an add and a store; this is the load.
SyncLoad(t) ==
    /\ tpc[t] = "load"
    /\ treg' = [treg EXCEPT ![t] = so]
    /\ tpc' = [tpc EXCEPT ![t] = "store"]
    /\ UNCHANGED <<so, mtx2, worker, ti>>
    /\ UNCHANGED otherThanSync

\* Variant: so += 2 as one indivisible read-modify-write.
SyncStore_Atomic(t) ==
    /\ tpc[t] = "store"
    /\ so' = so + 2
    /\ mtx2' = IF Locking(worker) THEN Free ELSE mtx2
    /\ ti' = [ti EXCEPT ![t] = ti[t] + 1]
    /\ tpc' = [tpc EXCEPT ![t] = SyncLoopOrDone(ti[t] + 1)]
    /\ UNCHANGED <<worker, treg>>
    /\ UNCHANGED otherThanSync

\* The store of so += 2, then mtx.unlock() or ~lock_guard in the locking
\* workers, then ++i.
SyncStore(t) ==
    /\ tpc[t] = "store"
    /\ so' = treg[t] + 2
    /\ mtx2' = IF Locking(worker) THEN Free ELSE mtx2
    /\ ti' = [ti EXCEPT ![t] = ti[t] + 1]
    /\ tpc' = [tpc EXCEPT ![t] = SyncLoopOrDone(ti[t] + 1)]
    /\ UNCHANGED <<worker, treg>>
    /\ UNCHANGED otherThanSync

\* main: so = 23 and two threads running f on it (or not started).
InitSyncWith(f, running) ==
    /\ so = SO_INITIAL
    /\ mtx2 = Free
    /\ worker = f
    /\ ti = [t \in SyncThreads |-> 0]
    /\ treg = [t \in SyncThreads |-> 0]
    /\ tpc = [t \in SyncThreads |->
                 IF ~running THEN "done"
                 ELSE IF Locking(f) THEN "lock" ELSE "load"]

\* main as written runs safeWorkerRAII; the other two workers are the
\* functions it is meant to be edited to run.
InitSync == \E f \in Workers3 : InitSyncWith(f, TRUE)

NextSync ==
    \/ \E t \in SyncThreads : SyncLock(t)
    \/ \E t \in SyncThreads : SyncLoad(t)
    \/ \E t \in SyncThreads : SyncStore(t)

\* ------------------------------------------------------------------------
\* 02_ipc_pipe_bidirectional.cpp: main, parent and child after fork()
\* ------------------------------------------------------------------------
\* Lines the user may type besides "exit", and how many at most before it.
Msgs == {"hello", "world"}
MaxInputs == 3

\* string response = "Child received: " + string(cbuff);
Response(m) == <<"Child received: ", m>>

\* What an uninitialised char pbuff[1000] may hold when it is printed.
Indeterminate == {Response(m) : m \in Msgs} \cup {<<"">>, <<"?">>}

\* Parent: close(pipe_p2c[0]); close(pipe_c2p[1]);
ParentCloseEnds ==
    /\ ppos = "close"
    /\ ppos' = "prompt"
    /\ UNCHANGED <<p2c, c2p, parentP2cW, childC2pW, chpos, pInput, cbuff,
                   typed, replyLog>>
    /\ UNCHANGED otherThanChat

\* cout << "[Parent] Enter message: "; getline(cin, pInput);
ParentPrompt(m) ==
    /\ ppos = "prompt"
    /\ typed < MaxInputs \/ m = "exit"
    /\ pInput' = m
    /\ typed' = typed + 1
    /\ ppos' = "write"
    /\ UNCHANGED <<p2c, c2p, parentP2cW, childC2pW, chpos, cbuff, replyLog>>
    /\ UNCHANGED otherThanChat

\* write(pipe_p2c[1], pInput.c_str(), pInput.length() + 1);
\* if (pInput == "exit") break;
\* A write to a pipe whose read ends are all closed raises SIGPIPE.
ParentWrite ==
    /\ ppos = "write"
    /\ IF chpos = "done"
          THEN /\ ppos' = "killed"
               /\ parentP2cW' = FALSE
               /\ UNCHANGED p2c
          ELSE /\ p2c' = Append(p2c, pInput)
               /\ ppos' = IF pInput = "exit" THEN "cleanup" ELSE "read"
               /\ UNCHANGED parentP2cW
    /\ UNCHANGED <<c2p, childC2pW, chpos, pInput, cbuff, typed, replyLog>>
    /\ UNCHANGED otherThanChat

\* char pbuff[1000]; read(pipe_c2p[0], pbuff, 1000); cout << pbuff;
\* read() returns what the pipe holds (pbuff as a C string is the first
\* message), blocks while the pipe is empty and a write end is open, and
\* returns 0 without touching pbuff once every write end is closed.
ParentRead ==
    /\ ppos = "read"
    /\ IF c2p # <<>>
          THEN /\ replyLog' = Append(replyLog, <<pInput, TRUE, Head(c2p)>>)
               /\ c2p' = <<>>
          ELSE /\ ~childC2pW
               /\ \E junk \in Indeterminate :
                     replyLog' = Append(replyLog, <<pInput, FALSE, junk>>)
               /\ UNCHANGED c2p
    /\ ppos' = "prompt"
    /\ UNCHANGED <<p2c, parentP2cW, childC2pW, chpos, pInput, cbuff, typed>>
    /\ UNCHANGED otherThanChat

\* close(pipe_p2c[1]); close(pipe_c2p[0]);
ParentCleanup ==
    /\ ppos = "cleanup"
    /\ parentP2cW' = FALSE
    /\ ppos' = "wait"
    /\ UNCHANGED <<p2c, c2p, childC2pW, chpos, pInput, cbuff, typed,
                   replyLog>>
    /\ UNCHANGED otherThanChat

\* wait(nullptr); return 0;
ParentWait ==
    /\ ppos = "wait"
    /\ chpos = "done"
    /\ ppos' = "done"
    /\ UNCHANGED <<p2c, c2p, parentP2cW, childC2pW, chpos, pInput, cbuff,
                   typed, replyLog>>
    /\ UNCHANGED otherThanChat

\* Child: close(pipe_p2c[1]); close(pipe_c2p[1]);
ChildCloseEnds ==
    /\ chpos = "close"
    /\ childC2pW' = FALSE
    /\ chpos' = "read"
    /\ UNCHANGED <<p2c, c2p, parentP2cW, ppos, pInput, cbuff, typed,
                   replyLog>>
    /\ UNCHANGED otherThanChat

\* int n = read(pipe_p2c[0], cbuff, 1000);
\* if (n <= 0 || strcmp(cbuff, "exit") == 0) break;   (then close, return)
\* read() returns everything the pipe holds; cbuff as a C string is the
\* first message of it.
ChildRead ==
    /\ chpos = "read"
    /\ \/ /\ p2c # <<>>
          /\ cbuff' = Head(p2c)
          /\ p2c' = <<>>
          /\ chpos' = IF Head(p2c) = "exit" THEN "done" ELSE "write"
       \/ /\ p2c = <<>>
          /\ ~parentP2cW
          /\ chpos' = "done"
          /\ UNCHANGED <<p2c, cbuff>>
    /\ UNCHANGED <<c2p, parentP2cW, childC2pW, ppos, pInput, typed, replyLog>>
    /\ UNCHANGED otherThanChat

\* response = "Child received: " + string(cbuff);
\* write(pipe_c2p[1], response.c_str(), response.length() + 1);
\* write() on a closed descriptor fails (EBADF) and writes nothing.
ChildWrite ==
    /\ chpos = "write"
    /\ c2p' = IF childC2pW THEN Append(c2p, Response(cbuff)) ELSE c2p
    /\ chpos' = "read"
    /\ UNCHANGED <<p2c, parentP2cW, childC2pW, ppos, pInput, cbuff, typed,
                   replyLog>>
    /\ UNCHANGED otherThanChat

\* After fork(): both pipes empty, every descriptor open in both processes.
InitChatWith(running) ==
    /\ p2c = <<>>
    /\ c2p = <<>>
    /\ parentP2cW = TRUE
    /\ childC2pW = TRUE
    /\ ppos = IF running THEN "close" ELSE "done"
    /\ chpos = IF running THEN "close" ELSE "done"
    /\ pInput = ""
    /\ cbuff = ""
    /\ typed = 0
    /\ replyLog = <<>>

InitChat == InitChatWith(TRUE)

NextChat ==
    \/ ParentCloseEnds
    \/ \E m \in Msgs \cup {"exit"} : ParentPrompt(m)
    \/ ParentWrite
    \/ ParentRead
    \/ ParentCleanup
    \/ ParentWait
    \/ ChildCloseEnds
    \/ ChildRead
    \/ ChildWrite

\* ------------------------------------------------------------------------
\* Specifications
\* ------------------------------------------------------------------------
\* State of a program that is not the one running.
IdlePC == InitPCWith([p \in Producers |-> 0])
IdleSem == InitSemWith([w \in Workers |-> <<>>])
IdlePool == InitPoolWith({})
IdleSimple == InitSimpleWith(FALSE)
IdleSync == InitSyncWith("safeWorkerRAII", FALSE)
IdleChat == InitChatWith(FALSE)
IdleMore == IdlePool /\ IdleSimple /\ IdleSync /\ IdleChat

\* producer_consumer_advanced.cpp as written.
InitSpecPC == InitPC /\ IdleSem /\ IdleMore
SpecPC == InitSpecPC /\ [][NextPC]_vars

\* The same threads for every item count per producer in 0..MaxItems.
InitSpecPCAny == InitPCAny /\ IdleSem /\ IdleMore
SpecPCAny == InitSpecPCAny /\ [][NextPC]_vars

\* Fair scheduling: a thread that can take a step, or can again and again
\* (the mutex it wants is free again and again), eventually takes one.
\* Spurious wake-ups are possible but never required.
ProducerThread(p) ==
    \/ ProducerLock(p)
    \/ ProducerPush(p)
    \/ ProducerFinLock(p)
    \/ ProducerFinish(p)

ConsumerThread(c) ==
    \/ ConsumerLock(c)
    \/ ConsumerWait(c)
    \/ ConsumerRelock(c)
    \/ ConsumerBody(c)

FairPC ==
    /\ \A p \in Producers : SF_vars(ProducerThread(p))
    /\ \A c \in Consumers : SF_vars(ConsumerThread(c))

FairSpecPCAny == SpecPCAny /\ FairPC

\* semaphore_cpp20.cpp as written: MaxWorkers threads running worker().
InitSpecSem == InitSem /\ IdlePC /\ IdleMore
SpecSem == InitSpecSem /\ [][NextSem]_vars

\* CountingSemaphore(3) under every sequence of acquire()/release() calls.
InitSpecSemAny == InitSemAny /\ IdlePC /\ IdleMore
SpecSemAny == InitSpecSemAny /\ [][NextSem]_vars


\* The close step performed again: a producer that has finished runs the
\* block  { lock_guard<mutex> lock(mtx); finished_producing = true;
\* cv.notify_all(); }  once more after the flag was set, at most MaxCloses
\* close steps in all.
MaxCloses == 3

\* Variant: the close step also queues an end marker.
CloseAgain_QueuesMarker(p) ==
    /\ ppc[p] = "done"
    /\ finished_producing
    /\ Len(closeLog) < MaxCloses
    /\ mtx = Free
    /\ finished_producing' = TRUE
    /\ data_queue' = Append(data_queue, -1)
    /\ closeLog' = Append(closeLog, p)
    /\ \E woken \in NotifyAll(cvWaiters) :
          /\ cvWaiters' = cvWaiters \ woken
          /\ cpc' = [c \in Consumers |->
                        IF c \in woken THEN "woken" ELSE cpc[c]]
    /\ UNCHANGED <<mtx, producers_done, quota, ppc, pi, pushed, popped>>
    /\ UNCHANGED otherThanPC

CloseAgain(p) ==
    /\ ppc[p] = "done"
    /\ finished_producing
    /\ Len(closeLog) < MaxCloses
    /\ mtx = Free
    /\ finished_producing' = TRUE
    /\ closeLog' = Append(closeLog, p)
    /\ \E woken \in NotifyAll(cvWaiters) :
          /\ cvWaiters' = cvWaiters \ woken
          /\ cpc' = [c \in Consumers |->
                        IF c \in woken THEN "woken" ELSE cpc[c]]
    /\ UNCHANGED <<mtx, data_queue, producers_done, quota, ppc, pi, pushed,
                   popped>>
    /\ UNCHANGED otherThanPC

NextPCReclose ==
    \/ NextPC
    \/ \E p \in Producers : CloseAgain(p)

InitSpecPCReclose == InitPCAny /\ IdleSem /\ IdleMore
SpecPCReclose == InitSpecPCReclose /\ [][NextPCReclose]_vars

\* The steps a semaphore caller takes itself (a wake-up is delivered to it by
\* release() or happens spuriously; it is not a step of the caller).
WorkerThread(w) ==
    \/ AcquireLock(w)
    \/ AcquireWait(w)
    \/ AcquireRelock(w)
    \/ AcquireDecrement(w)
    \/ ReleaseLock(w)
    \/ ReleaseBody(w)

\* The worker harness under fair scheduling of its threads.
FairSem == \A w \in Workers : SF_vars(WorkerThread(w))

FairSpecSem == SpecSem /\ FairSem

\* semaphore_native.cpp as written, with MaxPoolWorkers threads.
InitSpecPool ==
    InitPool /\ IdlePC /\ IdleSem /\ IdleSimple /\ IdleSync /\ IdleChat
SpecPool == InitSpecPool /\ [][NextPool]_vars

\* producer_consumer.cpp as written.
InitSpecSimple ==
    InitSimple /\ IdlePC /\ IdleSem /\ IdlePool /\ IdleSync /\ IdleChat
SpecSimple == InitSpecSimple /\ [][NextSimple]_vars

\* sync_basics.cpp: two threads running one of its three workers.
InitSpecSync ==
    InitSync /\ IdlePC /\ IdleSem /\ IdlePool /\ IdleSimple /\ IdleChat
SpecSync == InitSpecSync /\ [][NextSync]_vars

\* 02_ipc_pipe_bidirectional.cpp as written, the user typing up to
\* MaxInputs lines and then "exit".
InitSpecChat ==
    InitChat /\ IdlePC /\ IdleSem /\ IdlePool /\ IdleSimple /\ IdleSync
SpecChat == InitSpecChat /\ [][NextChat]_vars

\* Both programs, one run after the other: the semaphore demo until all its
\* workers have returned, then the producer/consumer harness.
SemTerminated ==
    \A w \in Workers : spc[w] = "call" /\ CurrentCall(w) = "return"

InitSpecDemos == InitSem /\ InitPCAny /\ IdleMore

NextDemos ==
    \/ NextSem
    \/ SemTerminated /\ NextPC

SpecDemos == InitSpecDemos /\ [][NextDemos]_vars

\* ------------------------------------------------------------------------
\* Properties
\* ------------------------------------------------------------------------
Range(s) == {s[k] : k \in DOMAIN s}

\* Number of occurrences of v in the sequence s.
Occ(s, v) == Cardinality({k \in DOMAIN s : s[k] = v})

IsPrefix(s, t) == Len(s) <= Len(t) /\ SubSeq(t, 1, Len(s)) = s

\* The values producer p pushes over its whole run.
ValuesOf(p) == {Value(p, i) : i \in 0..(quota[p] - 1)}
ProducedValues == UNION {ValuesOf(p) : p \in Producers}

AllProducersDone == \A p \in Producers : ppc[p] = "done"
AllConsumersDone == \A c \in Consumers : cpc[c] = "done"
AllTerminated == AllProducersDone /\ AllConsumersDone

\* C1: once every producer and consumer thread has terminated, the values
\* popped (by all consumers together; popped logs every pop) are, as a
\* multiset, the values pushed, and every value a producer was to push has
\* been popped exactly once: nothing is lost, nothing is popped twice.
C1_NoLossNoDuplication ==
    AllTerminated =>
        /\ Range(pushed) = ProducedValues
        /\ \A v \in Range(pushed) \cup Range(popped) :
              Occ(popped, v) = Occ(pushed, v)
        /\ \A v \in ProducedValues : Occ(popped, v) = 1

\* All threads of the program have terminated and all 10 items were popped.
C1_Witness ==
    /\ AllTerminated
    /\ Len(popped) = NUM_PRODUCERS * ITEMS_PER_PRODUCER

\* C2: under fair scheduling every consumer eventually leaves its loop,
\* whatever the item counts of the producers: no consumer stays blocked in
\* cv.wait forever.
C2_ConsumersTerminate == <>AllConsumersDone

\* Items were produced, the last producer closed, every consumer has exited.
C2_Witness ==
    /\ AllConsumersDone
    /\ finished_producing
    /\ Len(pushed) > 0
    /\ Len(popped) = Len(pushed)

\* C3: in every state the values popped so far, in pop order, are a prefix
\* of the values pushed so far, in push order; so the values of any one
\* producer are popped in the order in which that producer pushed them.
C3_FifoOrder ==
    /\ IsPrefix(popped, pushed)
    /\ \A p \in Producers :
          LET mine == SelectSeq(popped, LAMBDA v : v \div 100 = p)
          IN  mine = [k \in 1..Len(mine) |-> Value(p, k - 1)]

\* Pops of both producers' values, interleaved, with items left in the queue.
C3_Witness ==
    /\ Len(popped) >= 3
    /\ popped[1] \div 100 = 2
    /\ popped[2] \div 100 = 1
    /\ popped[3] \div 100 = 2
    /\ Len(data_queue) >= 2

\* A worker is inside the guarded section from the return of its acquire()
\* to the ++count of its release().
Inside(w) == prog[w] = WorkerProg /\ sip[w] = 2
InsideCount == Cardinality({w \in Workers : Inside(w)})

\* C4: in the worker harness the number of threads inside the guarded
\* section never exceeds the semaphore's initial count.
C4_AtMostNInside == InsideCount <= SEM_INITIAL

\* The section is full and another worker is suspended in acquire().
C4_Witness ==
    /\ InsideCount = SEM_INITIAL
    /\ \E w \in Workers : spc[w] = "blocked"

\* C5: count never exceeds the value the semaphore was constructed with,
\* for every sequence of acquire() and release() calls.
C5_CountNeverExceedsInitial == count <= SEM_INITIAL

\* C6: count is never negative, and a thread about to execute --count
\* holds the mutex in a state where count > 0 (the test and the decrement
\* are not separated by any other thread's change of count).
C6_CountNeverNegative ==
    /\ count >= 0
    /\ \A w \in Workers :
          spc[w] = "acq_dec" => (count > 0 /\ smtx = W(w))

\* Three acquire() calls took the three permits and a fourth one, finding
\* count = 0, suspended its thread.
C6_Witness ==
    /\ count = 0
    /\ \E w \in Workers : spc[w] = "blocked"

\* C7: the step that sets finished_producing unblocks every consumer
\* suspended in cv.wait, and under fair scheduling, from any state where
\* the flag is set, the queue is empty and consumers are unblocked, all
\* consumers (those unblocked ones among them) exit their loops.
C7_CloseWakesAll ==
    /\ [][(~finished_producing /\ finished_producing') =>
             /\ cvWaiters' = {}
             /\ \A c \in cvWaiters : cpc'[c] = "woken"]_vars
    /\ (/\ finished_producing
        /\ data_queue = <<>>
        /\ \E c \in Consumers : cpc[c] = "woken") ~> AllConsumersDone

\* Nothing was ever pushed, and the close step has just unblocked all the
\* consumers, which were all suspended.
C7_Witness ==
    /\ finished_producing
    /\ pushed = <<>>
    /\ \A c \in Consumers : cpc[c] = "woken"

\* C8: a consumer exits only from a state where data_queue is empty and
\* finished_producing is true; a consumer that returns from cv.wait with
\* the queue non-empty removes the front element and does not exit, also
\* when finished_producing is true.
C8_ExitOnlyWhenDrained ==
    [][\A c \in Consumers :
          /\ (cpc[c] # "done" /\ cpc'[c] = "done") =>
                (data_queue = <<>> /\ finished_producing)
          /\ (cpc[c] = "body" /\ cpc'[c] # "body" /\ data_queue # <<>>) =>
                /\ cpc'[c] # "done"
                /\ popped' = Append(popped, Head(data_queue))
                /\ data_queue' = Tail(data_queue)]_vars

\* A consumer has returned from cv.wait with items queued after the close.
C8_Witness ==
    /\ finished_producing
    /\ \E c \in Consumers : cpc[c] = "body" /\ data_queue # <<>>

\* C9: the close step is performed exactly when producers_done reaches
\* NUM_PRODUCERS, once, by the producer whose increment it was; so when
\* all producers are done exactly one of them has closed.
C9_ExactlyOneClose ==
    /\ Len(closeLog) = (IF producers_done = NUM_PRODUCERS THEN 1 ELSE 0)
    /\ finished_producing <=> (Len(closeLog) = 1)
    /\ producers_done = Cardinality({p \in Producers : ppc[p] = "done"})
    /\ \A k \in DOMAIN closeLog : ppc[closeLog[k]] = "done"

\* Producer 1 finished last and closed.
C9_Witness ==
    /\ AllProducersDone
    /\ closeLog = <<1>>

\* C10: finished_producing starts false and no step resets it.
C10_FinishedMonotonic ==
    /\ ~finished_producing
    /\ [][finished_producing => finished_producing']_vars

\* The flag is set and a consumer has exited since.
C10_Witness ==
    /\ finished_producing
    /\ \E c \in Consumers : cpc[c] = "done"

\* C11: a thread suspended in cv.wait, in consumer() or in acquire(), does
\* not own the mutex, and it is in the wait set; so whenever the mutex is
\* free a producer at a lock_guard, or a thread entering release(), can take
\* it, whoever is suspended.
C11_SuspendedHoldsNoLock ==
    /\ \A c \in Consumers :
          cpc[c] = "blocked" => (mtx # C(c) /\ c \in cvWaiters)
    /\ \A w \in Workers :
          spc[w] = "blocked" => (smtx # W(w) /\ w \in semWaiters)
    /\ \A p \in Producers :
          (mtx = Free /\ ppc[p] = "lock") => ENABLED ProducerLock(p)
    /\ \A p \in Producers :
          (mtx = Free /\ ppc[p] = "fin_lock") => ENABLED ProducerFinLock(p)
    /\ \A w \in Workers :
          (smtx = Free /\ spc[w] = "call" /\ CurrentCall(w) = "release")
              => ENABLED ReleaseLock(w)

\* Every consumer is suspended while a producer owns the mutex.
C11_Witness ==
    /\ \A c \in Consumers : cpc[c] = "blocked"
    /\ \E p \in Producers : mtx = P(p)

\* C12: a consumer that was unblocked, by a notification or spuriously,
\* re-locks the mutex and evaluates the predicate again; it is past cv.wait
\* only with the mutex held and the queue non-empty or finished_producing
\* true; every pop is from a non-empty queue.
C12_PredicateRechecked ==
    /\ [](\A c \in Consumers :
             cpc[c] = "body" => (WaitPredicate /\ mtx = C(c)))
    /\ [][\A c \in Consumers :
             /\ (cpc[c] = "woken" /\ cpc'[c] # "woken") =>
                   (cpc'[c] = "wait" /\ mtx' = C(c))
             /\ (cpc[c] = "body" /\ popped' # popped) =>
                   data_queue # <<>>]_vars

\* A consumer was unblocked (spuriously, or for an item that another
\* consumer has popped since): the queue is empty and production goes on.
C12_Witness ==
    /\ \E c \in Consumers : cpc[c] = "woken"
    /\ data_queue = <<>>
    /\ ~finished_producing
    /\ Len(popped) > 0
    /\ cvWaiters = {}

\* C13: a thread is at code between a lock and its unlock exactly when it
\* owns the mutex, so at most one thread per mutex is; and every step that
\* changes data_queue, finished_producing or producers_done is taken by the
\* owner of mtx, every step that changes count by the owner of the
\* semaphore's mutex.
C13_MutationUnderLock ==
    /\ [](\A p \in Producers : ppc[p] \in {"push", "fin"} <=> mtx = P(p))
    /\ [](\A c \in Consumers : cpc[c] \in {"wait", "body"} <=> mtx = C(c))
    /\ [](\A w \in Workers :
             spc[w] \in {"acq_wait", "acq_dec", "rel"} <=> smtx = W(w))
    /\ [][(\/ data_queue' # data_queue
           \/ finished_producing' # finished_producing
           \/ producers_done' # producers_done) =>
             \/ \E p \in Producers : mtx = P(p) /\ ppc'[p] # ppc[p]
             \/ \E c \in Consumers : mtx = C(c) /\ cpc'[c] # cpc[c]]_vars
    /\ [][count' # count =>
             \E w \in Workers : smtx = W(w) /\ spc'[w] # spc[w]]_vars

\* A consumer owns the mutex and is about to pop while both producers and
\* the other consumers wait for the mutex.
C13_Witness ==
    /\ \E c \in Consumers :
          /\ mtx = C(c)
          /\ cpc[c] = "body"
          /\ \A d \in Consumers \ {c} : cpc[d] \in {"lock", "woken"}
    /\ data_queue # <<>>
    /\ \A p \in Producers : ppc[p] = "lock"

\* C14: a step that pushes an item unblocks exactly one of the consumers
\* suspended in cv.wait if there is one, and none otherwise; the consumers
\* it does not unblock stay suspended.
C14_PushWakesOne ==
    [][pushed' # pushed =>
          LET unblocked == {c \in Consumers :
                               cpc[c] = "blocked" /\ cpc'[c] # "blocked"}
          IN  /\ Cardinality(unblocked) = (IF cvWaiters = {} THEN 0 ELSE 1)
              /\ unblocked \subseteq cvWaiters
              /\ cvWaiters' = cvWaiters \ unblocked
              /\ \A c \in unblocked : cpc'[c] = "woken"]_vars

\* The first push found all three consumers suspended: one is unblocked,
\* two are still suspended.
C14_Witness ==
    /\ Len(pushed) = 1
    /\ data_queue # <<>>
    /\ Cardinality({c \in Consumers : cpc[c] = "woken"}) = 1
    /\ Cardinality({c \in Consumers : cpc[c] = "blocked"}) = 2
    /\ Cardinality(cvWaiters) = 2

\* C15: the step of release() that has the mutex adds 1 to count and
\* unblocks exactly one of the threads suspended in acquire() if there is
\* one, none otherwise; the other suspended threads stay suspended.
C15_ReleaseWakesOne ==
    [][\A w \in Workers :
          (spc[w] = "rel" /\ spc'[w] # "rel") =>
             LET unblocked == {v \in Workers :
                                  spc[v] = "blocked" /\ spc'[v] # "blocked"}
             IN  /\ count' = count + 1
                 /\ Cardinality(unblocked) =
                       (IF semWaiters = {} THEN 0 ELSE 1)
                 /\ unblocked \subseteq semWaiters
                 /\ semWaiters' = semWaiters \ unblocked
                 /\ \A v \in unblocked : spc'[v] = "woken"]_vars

\* Two workers were suspended when the first release() came: it freed one
\* permit and unblocked one of them, the other is still suspended.
C15_Witness ==
    /\ count = 1
    /\ Cardinality({w \in Workers : sip[w] = 3}) = 1
    /\ Cardinality({w \in Workers : spc[w] = "woken"}) = 1
    /\ Cardinality(semWaiters) = 1

\* C16: a producer that has items left takes the mutex whenever it is
\* free, and pushes whenever it owns it, whatever the queue holds and
\* whatever the consumers do: no step of a producer waits for the queue.
C16_PushNeverBlocks ==
    \A p \in Producers :
        /\ (ppc[p] = "lock" /\ mtx = Free) => ENABLED ProducerLock(p)
        /\ ppc[p] = "push" => ENABLED ProducerPush(p)

\* Seven items are queued, no consumer has started, the mutex is free and
\* a producer is about to lock it for its next push.
C16_Witness ==
    /\ Len(data_queue) = 7
    /\ mtx = Free
    /\ \E p \in Producers : ppc[p] = "lock"
    /\ \A c \in Consumers : cpc[c] = "lock"

\* C17 as stated: when all threads have finished, the values consumed are
\* 0..4 and 100..104, none twice.
C17_ValuesFromZero ==
    AllTerminated =>
        /\ Range(popped) = (0..4) \cup (100..104)
        /\ Len(popped) = Cardinality(Range(popped))

\* C17 as amended: main() starts producer(1) and producer(2), so the values
\* pushed are 100..104 and 200..204, and when all threads have finished
\* the values consumed are exactly these ten, none twice.
C17_ValuesFromHundred ==
    AllTerminated =>
        /\ Range(pushed) = (100..104) \cup (200..204)
        /\ Range(popped) = (100..104) \cup (200..204)
        /\ Len(popped) = Cardinality(Range(popped))

\* A finished run in which 200 was consumed first and 104 last.
C17_Witness ==
    /\ AllTerminated
    /\ Head(popped) = 200
    /\ popped[Len(popped)] = 104

\* C18 as stated: in every complete run of the worker harness the largest
\* number of workers inside the guarded section at once was exactly 3.
C18_PeakExactlyN == SemTerminated => peak = SEM_INITIAL

\* C18 as amended: the largest number of workers inside at once is never
\* below the number inside now and never above 3, and in a complete run it
\* is at least 1 (3 in some runs, less in others).
C18_PeakAtMostN ==
    /\ InsideCount <= peak
    /\ peak <= SEM_INITIAL
    /\ SemTerminated => peak >= 1

\* A complete run in which three workers were inside at once.
C18_Witness == SemTerminated /\ peak = SEM_INITIAL

\* C19: a close step performed when finished_producing is already true
\* changes nothing but the record of closes: the queue, the flag (true),
\* the wait set, every consumer's position and the mutex are as before, so
\* the consumers go on exactly as after a single close.
C19_CloseIdempotent ==
    [][(Len(closeLog') > Len(closeLog) /\ finished_producing) =>
          /\ finished_producing'
          /\ data_queue' = data_queue
          /\ cvWaiters' = cvWaiters
          /\ cpc' = cpc
          /\ mtx' = mtx
          /\ <<pushed, popped, producers_done, ppc, pi>>' =
                <<pushed, popped, producers_done, ppc, pi>>]_vars

\* The close step was performed a second time while items were queued and
\* no consumer had exited yet.
C19_Witness ==
    /\ Len(closeLog) = 2
    /\ data_queue # <<>>
    /\ \A c \in Consumers : cpc[c] # "done"

\* C20: a blocked consumer or acquirer does not spin.  A thread that
\* evaluates its wait predicate and finds it false suspends in the wait set;
\* while suspended it holds no mutex and none of its own steps (locking,
\* evaluating the predicate, the body) is possible; and it leaves the
\* suspended position only by being taken out of the wait set, by a notify
\* or a spurious wake-up, after which it re-locks and looks again.
C20_BlockedTakesNoStep ==
    /\ [](\A c \in Consumers : cpc[c] = "blocked" =>
             /\ c \in cvWaiters
             /\ mtx # C(c)
             /\ ~ENABLED ConsumerThread(c))
    /\ [](\A w \in Workers : spc[w] = "blocked" =>
             /\ w \in semWaiters
             /\ smtx # W(w)
             /\ ~ENABLED WorkerThread(w))
    /\ [][\A c \in Consumers :
             /\ (cpc[c] = "wait" /\ ~WaitPredicate /\ cpc'[c] # cpc[c]) =>
                   (cpc'[c] = "blocked" /\ c \in cvWaiters')
             /\ (cpc[c] = "blocked" /\ cpc'[c] # "blocked") =>
                   (cpc'[c] = "woken" /\ c \notin cvWaiters' /\ mtx' # C(c))
             /\ (cpc[c] = "blocked" /\ cpc'[c] = "blocked") =>
                   c \in cvWaiters']_vars
    /\ [][\A w \in Workers :
             /\ (spc[w] = "acq_wait" /\ count <= 0 /\ spc'[w] # spc[w]) =>
                   (spc'[w] = "blocked" /\ w \in semWaiters')
             /\ (spc[w] = "blocked" /\ spc'[w] # "blocked") =>
                   (spc'[w] = "woken" /\ w \notin semWaiters' /\ smtx' # W(w))
             /\ (spc[w] = "blocked" /\ spc'[w] = "blocked") =>
                   w \in semWaiters']_vars

\* A consumer stays suspended although an item is queued: the notify of that
\* push was delivered to another consumer.
C20_Witness ==
    \E c, d \in Consumers :
        /\ cpc[c] = "blocked"
        /\ cpc[d] = "woken"
        /\ data_queue # <<>>

\* C21: no lost wake-up.  Whenever an item is queued, at least one consumer
\* is live and not suspended un-notified: it is about to lock, holds the lock
\* before the predicate or the body, or has been unblocked and will re-lock.
C21_NoLostWakeup ==
    data_queue # <<>> =>
        \E c \in Consumers : cpc[c] \in {"lock", "wait", "woken", "body"}

\* An item is queued, two consumers are suspended, and the only other one is
\* the consumer the push unblocked.
C21_Witness ==
    /\ data_queue # <<>>
    /\ Cardinality({c \in Consumers : cpc[c] = "blocked"}) = NUM_CONSUMERS - 1
    /\ \E c \in Consumers : cpc[c] = "woken"

\* Producer p is at the close step with two or more consumers suspended on
\* the empty queue.
C22_CloseMoment(p) ==
    /\ ppc[p] = "fin"
    /\ producers_done + 1 = NUM_PRODUCERS
    /\ data_queue = <<>>
    /\ Cardinality(cvWaiters) >= 2

C23_NoPushAfterClose ==
    /\ [](finished_producing =>
             /\ \A p \in Producers :
                   /\ pi[p] = ITEMS_PER_PRODUCER
                   /\ ValuesOf(p) \subseteq Range(pushed)
             /\ Len(pushed) = NUM_PRODUCERS * ITEMS_PER_PRODUCER)
    /\ [][finished_producing =>
             /\ pushed' = pushed
             /\ Len(data_queue') <= Len(data_queue)
             /\ finished_producing']_vars

\* The stream is closed while items are still queued, and a consumer takes
\* one of them after the close.
C23_Witness ==
    /\ finished_producing
    /\ data_queue # <<>>
    /\ \E c \in Consumers : cpc[c] = "body"

\* C24: permit conservation in the worker harness.  In every state, count
\* plus the number of workers that have returned from acquire() and have not
\* yet executed the ++count of their release() is the initial count, 3.
C24_PermitConservation == count + InsideCount = SEM_INITIAL

\* No permit is left, three workers hold one, and one of them is in
\* release() with the lock, about to give its permit back.
C24_Witness ==
    /\ count = 0
    /\ InsideCount = SEM_INITIAL
    /\ \E w \in Workers : spc[w] = "rel"

\* C25: under fair scheduling every worker of the harness acquires a permit,
\* releases it and returns; in particular whenever a worker is suspended in
\* acquire(), or was unblocked and found the permit gone, the run still ends
\* with every worker returned.
C25_WorkersTerminate ==
    /\ <>SemTerminated
    /\ (\E w \in Workers : spc[w] \in {"blocked", "woken"}) ~> SemTerminated

\* A waiter was unblocked by a release(), but the permit that release() gave
\* back is already taken: count is 0 and three workers hold a permit.
C25_Witness ==
    /\ \E w \in Workers : spc[w] = "woken"
    /\ count = 0
    /\ InsideCount = SEM_INITIAL

\* The workers between their counter++ and their counter--.
PoolInside == {t \in PoolWorkers : wpc[t] \in {"work", "leave"}}

\* C26: in the hand-rolled pool, 0 <= counter <= 3 in every state, counter
\* is the number of workers between their counter++ and their counter--, a
\* worker increments it only with the lock held and counter < 3, and a
\* worker that left never touches it again.
C26_CounterInRange ==
    /\ [](/\ 0 <= counter
          /\ counter <= POOL_LIMIT
          /\ counter = Cardinality(PoolInside))
    /\ [][/\ counter' > counter =>
                /\ counter < POOL_LIMIT
                /\ counter' = counter + 1
                /\ \E t \in PoolWorkers :
                      pmtx = PW(t) /\ wpc[t] = "enter" /\ wpc'[t] = "work"
          /\ counter' < counter =>
                /\ counter' = counter - 1
                /\ \E t \in PoolWorkers :
                      pmtx = PW(t) /\ wpc[t] = "leave" /\ wpc'[t] = "done"
          /\ \A t \in PoolWorkers : wpc[t] = "done" => wpc'[t] = "done"]_vars

\* The pool is full and another worker is suspended waiting for a place.
C26_Witness ==
    /\ counter = POOL_LIMIT
    /\ \E t \in PoolWorkers : wpc[t] = "blocked"

\* The values the one producer pushes, in the order it pushes them.
C27_Expected == [k \in 1..SIMPLE_ITEMS |-> k - 1]

\* C27: in the one-producer one-consumer program the consumer processes
\* 0, 1, ..., 9 in that order, each once: what it has processed is always an
\* initial part of that sequence, and it has terminated only when the
\* producer has set finished_producing and all ten values are processed.
C27_ProcessesAllInOrder ==
    /\ IsPrefix(processed, C27_Expected)
    /\ cpc1 = "done" => (finished1 /\ processed = C27_Expected)

\* Both threads have terminated and all ten values were processed.
C27_Witness ==
    /\ cpc1 = "done"
    /\ ppc1 = "done"
    /\ processed = C27_Expected

\* int expected_so = 23 + (2 * ITERATIONS * 2);
SyncExpected == SO_INITIAL + 2 * MaxIterations * NUM_SYNC_THREADS
SyncAllDone == \A t \in SyncThreads : tpc[t] = "done"

\* C28: when both threads run a mutex-protected worker, no increment is
\* lost: so is always 23 plus 2 for every completed iteration, and after
\* both threads have finished it is 23 + 2 * ITERATIONS * 2.
C28_NoLostIncrement ==
    Locking(worker) =>
        /\ so = SO_INITIAL + 2 * (ti[1] + ti[2])
        /\ SyncAllDone => so = SyncExpected

\* Both threads have finished safeWorkerRAII.
C28_Witness ==
    /\ worker = "safeWorkerRAII"
    /\ SyncAllDone
    /\ so = SyncExpected

\* C29: with the unprotected workFun a lost update is reachable.  The store
\* of so += 2 writes the value the thread loaded plus 2 even when so has
\* changed since the load, so so never exceeds 23 plus 2 per completed
\* iteration and can fall short of it.
C29_StaleStore ==
    /\ [](worker = "workFun" =>
             /\ so <= SO_INITIAL + 2 * (ti[1] + ti[2])
             /\ so >= SO_INITIAL
             /\ SyncAllDone => so <= SyncExpected)
    /\ [][\A t \in SyncThreads :
             (worker = "workFun" /\ tpc[t] = "store" /\ tpc'[t] # "store") =>
                 so' = treg[t] + 2]_vars

\* Both threads have finished workFun and the final value is smaller than
\* 23 + 2 * ITERATIONS * 2.
C29_Witness ==
    /\ worker = "workFun"
    /\ SyncAllDone
    /\ so < SyncExpected

\* C30: in the pipe chat, for every message other than "exit" that the
\* parent wrote, its following read returned data, and the data was the
\* reply "Child received: <message>".
C30_ReplyReturned ==
    \A k \in DOMAIN replyLog :
        replyLog[k][2] /\ replyLog[k][3] = Response(replyLog[k][1])

=============================================================================
